---- MODULE Spec2Model ----
(***************************************************************************)
(* State-machine model of the two trainers of meta_learning_pacoh:         *)
(*   GPRegressionMetaLearned  (src/src/GPR_meta_mll.py)                    *)
(*   GPRegressionLearnedSVGD  (src/src/GPR_mll_svgd.py)                    *)
(* Numerical values (losses, gradients, tensors) are abstracted to the     *)
(* control state the methods read and write: module modes, object          *)
(* references, update counters, array shapes and the position in the loop. *)
(***************************************************************************)
EXTENDS Integers, Naturals, Sequences, FiniteSets, TLC

\* ---------------------------------------------------------------- bounds
MaxIter   == 2      \* largest num_iter_fit drawn at construction
MaxTasks  == 2      \* largest number of meta-train tasks
MaxUpdates == 4     \* optimizer updates one trainer may accumulate over its calls
MaxParticles == 3   \* largest num_particles drawn at construction
MaxLogPeriod == 2   \* largest log_period passed to fit
MaxValid  == 1      \* longest list of validation tuples
MaxDim    == 2      \* largest feature dimension of an input array
NSamples  == 2      \* rows of every array
LogEvery  == 100    \* GPR_meta_mll.py:109  itr % 100 == 0

VARIABLES
    \* ---- GPRegressionMetaLearned
    phase,              \* "pre" | "constructed" | "failed" (constructor raised)
    ctor_args,          \* the arguments the constructor was called with
    learning_mode, num_iter_fit, input_dim,
    nn_kernel_map, nn_mean_fn, covar_module, mean_module,
    shared_parameters, optimizer,
    likelihood,         \* mode of the shared GaussianLikelihood: "train" | "eval"
    task_dicts,         \* sequence of per-task GP models
    fitted,
    ever_fitted,        \* history: some meta_fit call has returned normally
    param_state,        \* number of in-place updates of the shared tensors
    pred_model,         \* the GP model last built by predict in the current /
                        \* last call (NoModel when it built none)
    built,              \* GP models built by predict in the current / last call
    pc, itr, task_idx, verbose, valid_tuples,
    ops,                \* operations of the current iteration, in order
    steps,              \* optimizer steps of the current / last call
    last,               \* <<method, outcome>> of the current / last call
    predict_args,       \* <<context_x, test_x>> when that call is predict
    \* ---- GPRegressionLearnedSVGD
    svgd_phase,         \* "pre" | "constructed" | "failed"
    num_particles, svgd_num_iter_fit, train_x,
    particles,          \* the particle ensemble: [id, n, version]
    svgd_fitted,
    tiled,              \* shapes of the arrays tiled by the last step / prediction
    svgd_pc, svgd_itr, svgd_verbose, log_period, valid_x, valid_t,
    svgd_steps,         \* svgd steps of the current / last fit call
    svgd_last           \* <<method, outcome>> of the current / last call

metaVars == <<phase, ctor_args, learning_mode, num_iter_fit, input_dim, nn_kernel_map,
              nn_mean_fn, covar_module, mean_module, shared_parameters,
              optimizer, likelihood, task_dicts, fitted, ever_fitted,
              param_state, pred_model, built, pc, itr, task_idx, verbose, valid_tuples,
              ops, steps, last, predict_args>>

svgdVars == <<svgd_phase, num_particles, svgd_num_iter_fit, train_x,
              particles, svgd_fitted, tiled, svgd_pc, svgd_itr, svgd_verbose,
              log_period, valid_x, valid_t, svgd_steps, svgd_last>>

vars == <<metaVars, svgdVars>>

\* ------------------------------------------------------- values and inputs
None == [kind |-> "None", val |-> "None"]
Str(s) == [kind |-> "str", val |-> s]
Obj(s) == [kind |-> "obj", val |-> s]

\* An argument is a string (interned literal or an equal string that is a
\* different object) or a pre-built gpytorch object.
StrArg(s, same) == [val |-> s, literal |-> same, isobj |-> FALSE]
ObjArg(s) == [val |-> s, literal |-> FALSE, isobj |-> TRUE]

LearningModeArgs == {"learn_mean", "learn_kernel", "both", "vanilla", "learned_mean"}
MeanArgs == {StrArg("NN", TRUE), StrArg("NN", FALSE), StrArg("constant", TRUE),
             StrArg("zero", TRUE), StrArg("SE", TRUE), ObjArg("Mean")}
CovarArgs == {StrArg("NN", TRUE), StrArg("NN", FALSE), StrArg("SE", TRUE),
              StrArg("zero", TRUE), ObjArg("Kernel")}

Shapes == {<<NSamples>>} \cup {<<NSamples, d>> : d \in 1..MaxDim}
Shapes2D == {<<NSamples, d>> : d \in 1..MaxDim}

\* `a is 'lit'`: object identity with the interned literal
Is(a, lit) == ~a.isobj /\ a.val = lit /\ a.literal
\* `a in [...]`: equality with one of the strings
InStrs(a, strs) == ~a.isobj /\ a.val \in strs
\* the value an attribute holds when the argument itself is stored
AsValue(a) == IF a.isobj THEN Obj(a.val) ELSE Str(a.val)

\* ------------------------------------------------ _setup_gp_prior (219-255)
KernelLearned == {"learn_kernel", "both"}
MeanLearned == {"learn_mean", "both"}

\* SetupKernel without the assertion of line 225
SetupKernel_NoAssert(covar_arg, lm) ==
    LET isNN == Is(covar_arg, "NN")
    IN [ok |-> TRUE,
        nn_kernel_map |-> IF isNN THEN Obj("NeuralNetwork_kernel") ELSE None,
        params |-> IF isNN THEN <<"nn_kernel_map">> ELSE <<>>,
        covar_module |-> IF Is(covar_arg, "SE") THEN Obj("ScaleKernel_RBF")
                         ELSE AsValue(covar_arg)]

\* a) kernel map & module, lines 224-237
SetupKernel(covar_arg, lm) ==
    LET isNN == Is(covar_arg, "NN")
        map  == IF isNN THEN Obj("NeuralNetwork_kernel") ELSE None
        grp  == IF isNN THEN <<"nn_kernel_map">> ELSE <<>>
        \* line 230 assigns the scaled RBF kernel, lines 234-237 assign again
        mod  == IF Is(covar_arg, "SE") THEN Obj("ScaleKernel_RBF")
                                       ELSE AsValue(covar_arg)
    IN [ok |-> (isNN => lm \in KernelLearned),
        nn_kernel_map |-> map, params |-> grp, covar_module |-> mod]

\* SetupMean without the assertion of line 242
SetupMean_NoAssert(mean_arg, lm) ==
    LET isNN == Is(mean_arg, "NN")
    IN [ok |-> TRUE,
        nn_mean_fn |-> IF isNN THEN Obj("NeuralNetwork_mean") ELSE None,
        params |-> IF isNN THEN <<"nn_mean_fn">> ELSE <<>>,
        mean_module |-> IF Is(mean_arg, "constant") THEN Obj("ConstantMean")
                        ELSE IF Is(mean_arg, "zero") THEN Obj("ZeroMean")
                        ELSE AsValue(mean_arg)]

\* b) mean map & module, lines 241-255
SetupMean(mean_arg, lm) ==
    LET isNN == Is(mean_arg, "NN")
        fn   == IF isNN THEN Obj("NeuralNetwork_mean") ELSE None
        grp  == IF isNN THEN <<"nn_mean_fn">> ELSE <<>>
        \* line 246 assigns None, lines 250-255 assign again
        mod  == IF Is(mean_arg, "constant") THEN Obj("ConstantMean")
                ELSE IF Is(mean_arg, "zero") THEN Obj("ZeroMean")
                ELSE AsValue(mean_arg)
    IN [ok |-> (isNN => lm \in MeanLearned),
        nn_mean_fn |-> fn, params |-> grp, mean_module |-> mod]

SetupGpPrior(mean_arg, covar_arg, lm) ==
    LET k == SetupKernel(covar_arg, lm)
        m == SetupMean(mean_arg, lm)
    IN [ok |-> k.ok /\ m.ok,
        nn_kernel_map |-> k.nn_kernel_map, covar_module |-> k.covar_module,
        nn_mean_fn |-> m.nn_mean_fn, mean_module |-> m.mean_module,
        shared_parameters |-> k.params \o m.params]

\* ------------------------------------------------------------ GP models
\* LearnedGPRegressionModel(train_x, train_t, likelihood, learned_kernel=...,
\* learned_mean=..., covar_module=..., mean_module=...): keeps the objects it
\* is given by reference; a new torch module starts in training mode.
LearnedGPRegressionModel(x_shape, lk, lmean, cov, mean) ==
    [train_x |-> x_shape, learned_kernel |-> lk, learned_mean |-> lmean,
     covar_module |-> cov, mean_module |-> mean, mode |-> "train"]

NoModel == [train_x |-> <<>>, learned_kernel |-> None, learned_mean |-> None,
            covar_module |-> None, mean_module |-> None, mode |-> "none"]

\* _handle_input_dimensionality(x, t): a 1-D input array becomes (n, 1)
HandleInputDimensionality(shape) ==
    IF Len(shape) = 1 THEN <<shape[1], 1>> ELSE shape

\* np.expand_dims(test_x, axis=-1) when test_x.ndim == 1 (lines 149-150)
ExpandQuery(shape) ==
    IF Len(shape) = 1 THEN shape \o <<1>> ELSE shape

\* valid_tuples / test_tuples: None or a list of tuples; a tuple has n
\* elements, a context input array cx and a query input array qx
NoTuples == [isNone |-> TRUE, list |-> <<>>]
Tuples(seq) == [isNone |-> FALSE, list |-> seq]
DataTuple(n, cx, qx) == [n |-> n, cx |-> cx, qx |-> qx]

SetMode(models, m) == [i \in DOMAIN models |-> [models[i] EXCEPT !.mode = m]]

\* TaskModel handing each task its own copy of the feature maps
TaskModel_Copy(x_shape, prior) ==
    LearnedGPRegressionModel(x_shape,
        IF prior.nn_kernel_map = None THEN None ELSE Obj("NeuralNetwork_kernel_copy"),
        IF prior.nn_mean_fn = None THEN None ELSE Obj("NeuralNetwork_mean_copy"),
        prior.covar_module, prior.mean_module)

\* --------------------------------------------------------------- __init__
\* the task model built in the constructor loop, lines 56-70
TaskModel(x_shape, prior) ==
    LearnedGPRegressionModel(x_shape, prior.nn_kernel_map, prior.nn_mean_fn,
                             prior.covar_module, prior.mean_module)

\* lines 33-35 and 40-43: argument and data checks
ArgsAccepted(lm, mean_arg, covar_arg) ==
    /\ lm \in {"learn_mean", "learn_kernel", "both", "vanilla"}
    /\ (InStrs(mean_arg, {"NN", "constant", "zero"}) \/ mean_arg.isobj)
    /\ (InStrs(covar_arg, {"NN", "SE"}) \/ covar_arg.isobj)

\* line 43: every task has the input dimension of the first one
DataAccepted(data) ==
    \A i \in DOMAIN data :
        HandleInputDimensionality(data[i])[2] = HandleInputDimensionality(data[1])[2]

\* the outcome of the constructor: "ok" or the exception that ends it
InitStatus(lm, mean_arg, covar_arg, data) ==
    IF ~ArgsAccepted(lm, mean_arg, covar_arg) THEN "AssertionError"  \* 33-35
    ELSE IF Len(data) = 0 THEN "IndexError"              \* line 42, [0]
    ELSE IF ~DataAccepted(data) THEN "AssertionError"                \* line 43
    ELSE IF ~SetupGpPrior(mean_arg, covar_arg, lm).ok
         THEN "AssertionError"                                  \* 225, 242
    ELSE "ok"

MetaTrainData == UNION {[1..n -> Shapes] : n \in 0..MaxTasks}

MetaInit ==
    /\ phase = "pre"
    /\ ctor_args = [learning_mode |-> "none", mean_module |-> ObjArg("none"),
                    covar_module |-> ObjArg("none"), n_tasks |-> 0]
    /\ learning_mode = "none" /\ num_iter_fit = 0 /\ input_dim = 0
    /\ nn_kernel_map = None /\ nn_mean_fn = None
    /\ covar_module = None /\ mean_module = None
    /\ shared_parameters = <<>> /\ optimizer = FALSE
    /\ likelihood = "none" /\ task_dicts = <<>>
    /\ fitted = FALSE /\ ever_fitted = FALSE /\ param_state = 0
    /\ pred_model = NoModel /\ built = 0
    /\ pc = "idle" /\ itr = 0 /\ task_idx = 0
    /\ verbose = FALSE /\ valid_tuples = NoTuples
    /\ ops = <<>> /\ steps = 0 /\ last = <<"none", "none">>
    /\ predict_args = <<>>

callVars == <<pc, itr, task_idx, verbose, valid_tuples, ops, steps,
              predict_args>>
localVars == <<itr, task_idx, verbose, valid_tuples, ops>>
objVars == <<learning_mode, num_iter_fit, input_dim, nn_kernel_map, nn_mean_fn,
             covar_module, mean_module, shared_parameters, optimizer,
             likelihood, task_dicts, fitted>>

Construct(lm, mean_arg, covar_arg, nif, data) ==
    /\ phase = "pre"
    /\ InitStatus(lm, mean_arg, covar_arg, data) = "ok"
    /\ LET prior == SetupGpPrior(mean_arg, covar_arg, lm)
       IN /\ phase' = "constructed"
          /\ learning_mode' = lm
          /\ num_iter_fit' = nif
          /\ input_dim' = HandleInputDimensionality(data[1])[2]
          /\ nn_kernel_map' = prior.nn_kernel_map
          /\ nn_mean_fn' = prior.nn_mean_fn
          /\ covar_module' = prior.covar_module
          /\ mean_module' = prior.mean_module
          /\ shared_parameters' = prior.shared_parameters
          /\ likelihood' = "train"
          /\ task_dicts' = [i \in DOMAIN data |->
                 TaskModel(HandleInputDimensionality(data[i]), prior)]
          /\ optimizer' = (Len(prior.shared_parameters) > 0)
          /\ fitted' = FALSE
    /\ ctor_args' = [learning_mode |-> lm, mean_module |-> mean_arg,
                     covar_module |-> covar_arg, n_tasks |-> Len(data)]
    /\ last' = <<"__init__", "ok">>
    /\ UNCHANGED <<ever_fitted, param_state, pred_model, built, callVars>>
    /\ UNCHANGED svgdVars

\* an assertion (or the IndexError of an empty task list) ends the
\* constructor: no trainer object exists
ConstructFails(lm, mean_arg, covar_arg, nif, data) ==
    /\ phase = "pre"
    /\ InitStatus(lm, mean_arg, covar_arg, data) # "ok"
    /\ phase' = "failed"
    /\ ctor_args' = [learning_mode |-> lm, mean_module |-> mean_arg,
                     covar_module |-> covar_arg, n_tasks |-> Len(data)]
    /\ last' = <<"__init__", InitStatus(lm, mean_arg, covar_arg, data)>>
    /\ UNCHANGED <<objVars, ever_fitted, param_state, pred_model, built,
                   callVars>>
    /\ UNCHANGED svgdVars


\* PredictFrom with the dimension check after the model is built
PredictFrom_LateCheck(st, cx, qx, fwd_raises) ==
    LET test_context_x == HandleInputDimensionality(cx)
        test_x == ExpandQuery(qx)
        gp_model == [LearnedGPRegressionModel(test_context_x, nn_kernel_map,
                         nn_mean_fn, covar_module, mean_module)
                     EXCEPT !.mode = "eval"]
    IN [status |-> IF test_x[2] # test_context_x[2] THEN "AssertionError"
                   ELSE IF fwd_raises THEN "Error" ELSE "ok",
        likelihood |-> "eval", pred_model |-> gp_model, built |-> st.built + 1]

\* ------------------------------------------------- predict (lines 134-172)
\* What one predict call does to the trainer, given the state it starts
\* from: st = [status, likelihood, pred_model, built].  fwd_raises: the
\* posterior computation of line 165 raises.
PredictFrom(st, cx, qx, fwd_raises) ==
    LET test_context_x == HandleInputDimensionality(cx)          \* line 148
        test_x == ExpandQuery(qx)                                \* 149-150
    IN IF test_x[2] # test_context_x[2]                          \* line 151
       THEN [st EXCEPT !.status = "AssertionError"]
       ELSE LET gp_model == [LearnedGPRegressionModel(test_context_x,
                                 nn_kernel_map, nn_mean_fn,
                                 covar_module, mean_module)
                             EXCEPT !.mode = "eval"]             \* 158-162
            IN [status |-> IF fwd_raises THEN "Error" ELSE "ok",
                likelihood |-> "eval",                           \* line 163
                pred_model |-> gp_model,
                built |-> st.built + 1]

\* eval (lines 175-199): both arrays are normalised, then predict
EvalFrom(st, t, fwd_raises) ==
    PredictFrom(st, HandleInputDimensionality(t.cx),
                HandleInputDimensionality(t.qx), fwd_raises)

\* the list comprehension of line 214: eval of tuple i, i+1, ... in order,
\* stopping at the first one that raises; raise_at = k: the posterior
\* computation of tuple k raises (0: none does)
RECURSIVE EvalEach(_, _, _, _)
EvalEach(st, tuples, i, raise_at) ==
    IF i > Len(tuples) THEN st
    ELSE LET nxt == EvalFrom(st, tuples[i], raise_at = i)
         IN IF nxt.status = "ok" THEN EvalEach(nxt, tuples, i + 1, raise_at)
            ELSE nxt

\* eval_datasets (lines 201-216)
EvalDatasetsFrom(st, tuples, raise_at) ==
    IF \E i \in DOMAIN tuples : tuples[i].n # 4                  \* line 212
    THEN [st EXCEPT !.status = "AssertionError"]
    ELSE IF Len(tuples) = 0                  \* zip(*[]) unpacks to nothing
    THEN [st EXCEPT !.status = "ValueError"]
    ELSE EvalEach(st, tuples, 1, raise_at)

Here == [status |-> "ok", likelihood |-> likelihood,
         pred_model |-> NoModel, built |-> 0]

\* a method is called on a constructed trainer when no other call runs
CanCall == phase = "constructed" /\ pc = "idle"

Returned(name, args, r) ==
    /\ predict_args' = args
    /\ likelihood' = r.likelihood
    /\ pred_model' = r.pred_model
    /\ built' = r.built
    /\ last' = <<name, r.status>>
    /\ steps' = 0
    /\ UNCHANGED <<phase, ctor_args, learning_mode, num_iter_fit, input_dim,
                   nn_kernel_map, nn_mean_fn, covar_module, mean_module,
                   shared_parameters, optimizer, task_dicts, fitted,
                   ever_fitted, param_state, pc, localVars>>
    /\ UNCHANGED svgdVars

Predict(cx, qx, fwd_raises) ==
    /\ CanCall
    /\ Returned("predict", <<cx, qx>>, PredictFrom(Here, cx, qx, fwd_raises))

Eval(t, fwd_raises) ==
    /\ CanCall
    /\ Returned("eval", <<>>, EvalFrom(Here, t, fwd_raises))

EvalDatasets(tuples, raise_at) ==
    /\ CanCall
    /\ Returned("eval_datasets", <<>>,
                EvalDatasetsFrom(Here, tuples, raise_at))


\* ------------------------------------------------ meta_fit (lines 78-130)
Op(name, i) == <<name, i>>

\* the locals of a call that has returned or raised
NoLocals ==
    /\ itr' = 0 /\ task_idx' = 0 /\ ops' = <<>>
    /\ verbose' = FALSE /\ valid_tuples' = NoTuples

\* Abort that marks the trainer fitted on the way out (a finally block)
Abort_MarksFitted(status) ==
    /\ pc' = "idle"
    /\ last' = <<"meta_fit", status>>
    /\ NoLocals
    /\ fitted' = TRUE

\* an exception leaves meta_fit: nothing after the raising line runs
Abort(status) ==
    /\ pc' = "idle"
    /\ last' = <<"meta_fit", status>>
    /\ NoLocals
    /\ UNCHANGED fitted

\* lines 86-94: entry, mode switch, arity assertion, choice of branch
MetaFit(v, vt) ==
    /\ CanCall
    \* the update counter is capped: a call after the first starts only
    \* if its steps fit under MaxUpdates
    /\ param_state = 0 \/ param_state + num_iter_fit <= MaxUpdates
    /\ task_dicts' = SetMode(task_dicts, "train")                \* line 86
    /\ likelihood' = "train"                                     \* line 87
    /\ built' = 0 /\ steps' = 0 /\ pred_model' = NoModel
    /\ predict_args' = <<>>
    /\ IF ~(vt.isNone \/ \A i \in DOMAIN vt.list : vt.list[i].n = 4)
       THEN Abort("AssertionError")                              \* line 89
       ELSE /\ last' = <<"meta_fit", "running">>
            /\ verbose' = v /\ valid_tuples' = vt
            /\ ops' = <<>> /\ task_idx' = 0
            /\ UNCHANGED fitted
            /\ IF Len(shared_parameters) > 0 /\ 1 <= num_iter_fit \* 91, 94
               THEN pc' = "zero_grad" /\ itr' = 1
               ELSE pc' = "finish" /\ itr' = 0
    /\ UNCHANGED <<phase, ctor_args, learning_mode, num_iter_fit, input_dim,
                   nn_kernel_map, nn_mean_fn, covar_module, mean_module,
                   shared_parameters, optimizer, ever_fitted, param_state>>
    /\ UNCHANGED svgdVars

objFrame == <<phase, ctor_args, learning_mode, num_iter_fit, input_dim,
              nn_kernel_map, nn_mean_fn, covar_module, mean_module,
              shared_parameters, optimizer, task_dicts, ever_fitted,
              predict_args>>

\* lines 96-97
ZeroGrad ==
    /\ pc = "zero_grad"
    /\ ops' = <<Op("zero_grad", 0)>>
    /\ task_idx' = 1
    /\ pc' = "loss"
    /\ UNCHANGED <<objFrame, likelihood, param_state, pred_model, built,
                   itr, steps, last, verbose, valid_tuples, fitted>>
    /\ UNCHANGED svgdVars

\* lines 99-103, one task; raises: the model or the marginal likelihood
\* of this task raises
TaskLoss(raises) ==
    /\ pc = "loss"
    /\ IF raises
       THEN Abort("Error")
       ELSE /\ ops' = Append(ops, Op("loss", task_idx))
            /\ IF task_idx < Len(task_dicts)
               THEN task_idx' = task_idx + 1 /\ pc' = "loss"
               ELSE task_idx' = task_idx /\ pc' = "backward"
            /\ UNCHANGED <<last, itr, verbose, valid_tuples, fitted>>
    /\ UNCHANGED <<objFrame, likelihood, param_state, pred_model, built,
                   steps>>
    /\ UNCHANGED svgdVars

\* line 105
Backward ==
    /\ pc = "backward"
    /\ ops' = Append(ops, Op("backward", 0))
    /\ pc' = "step"
    /\ UNCHANGED <<objFrame, likelihood, param_state, pred_model, built,
                   itr, task_idx, steps, last, verbose, valid_tuples, fitted>>
    /\ UNCHANGED svgdVars

\* line 106: the optimizer updates the shared tensors in place
OptimizerStep ==
    /\ pc = "step"
    /\ optimizer
    /\ param_state' = param_state + 1
    /\ steps' = steps + 1
    /\ ops' = Append(ops, Op("step", 0))
    /\ pc' = "log"
    /\ UNCHANGED <<objFrame, likelihood, pred_model, built, itr, task_idx,
                   last, verbose, valid_tuples, fitted>>
    /\ UNCHANGED svgdVars

\* LogsAt without the itr == 1 case
LogsAt_NoFirst(i) == verbose /\ i % LogEvery = 0

\* line 109
LogsAt(i) == verbose /\ (i = 1 \/ i % LogEvery = 0)

\* Advance running the loop once more than range(1, num_iter_fit + 1)
Advance_OffByOne ==
    /\ IF itr <= num_iter_fit
       THEN itr' = itr + 1 /\ pc' = "zero_grad"
       ELSE itr' = itr /\ pc' = "finish"
    /\ UNCHANGED <<last, task_idx, ops, verbose, valid_tuples, fitted>>

\* line 94: the next iteration, or the end of the loop
Advance ==
    /\ IF itr < num_iter_fit
       THEN itr' = itr + 1 /\ pc' = "zero_grad"
       ELSE itr' = itr /\ pc' = "finish"
    /\ UNCHANGED <<last, task_idx, ops, verbose, valid_tuples, fitted>>

\* LogAndAdvance with the validation wrapped in try/except
LogAndAdvance_Swallow(raise_at) ==
    /\ pc = "log"
    /\ LET validate == LogsAt(itr) /\ ~valid_tuples.isNone
           r == EvalDatasetsFrom([status |-> "ok", likelihood |-> "eval",
                                  pred_model |-> pred_model, built |-> built],
                                 valid_tuples.list, raise_at)
       IN IF validate
          THEN /\ pred_model' = r.pred_model
               /\ built' = r.built
               /\ likelihood' = "train"
               /\ Advance
          ELSE UNCHANGED <<pred_model, built, likelihood>> /\ Advance
    /\ UNCHANGED <<objFrame, param_state, steps>>
    /\ UNCHANGED svgdVars

\* lines 109-122: logging and validation, then line 94
LogAndAdvance(raise_at) ==
    /\ pc = "log"
    /\ LET validate == LogsAt(itr) /\ ~valid_tuples.isNone       \* 109, 116
           r == EvalDatasetsFrom([status |-> "ok", likelihood |-> "eval",
                                  pred_model |-> pred_model, built |-> built],
                                 valid_tuples.list, raise_at)    \* 117-118
       IN IF validate
          THEN /\ pred_model' = r.pred_model
               /\ built' = r.built
               /\ IF r.status = "ok"
                  THEN likelihood' = "train" /\ Advance          \* line 119
                  ELSE likelihood' = r.likelihood /\ Abort("ValidationError")
          ELSE UNCHANGED <<pred_model, built, likelihood>> /\ Advance
    /\ UNCHANGED <<objFrame, param_state, steps>>
    /\ UNCHANGED svgdVars

\* line 127
MarkFitted == fitted' = TRUE

\* LeaveInEvalMode without line 130
LeaveInEvalMode_ModelsOnly ==
    /\ task_dicts' = SetMode(task_dicts, "eval")
    /\ UNCHANGED likelihood

\* lines 129-130
LeaveInEvalMode ==
    /\ task_dicts' = SetMode(task_dicts, "eval")
    /\ likelihood' = "eval"

\* lines 127-130: the normal return
Finish ==
    /\ pc = "finish"
    /\ MarkFitted
    /\ ever_fitted' = TRUE
    /\ LeaveInEvalMode
    /\ pc' = "idle"
    /\ last' = <<"meta_fit", "ok">>
    /\ NoLocals
    /\ UNCHANGED <<phase, ctor_args, learning_mode, num_iter_fit, input_dim,
                   nn_kernel_map, nn_mean_fn, covar_module, mean_module,
                   shared_parameters, optimizer, param_state, pred_model,
                   built, steps, predict_args>>
    /\ UNCHANGED svgdVars

\* ======================== GPRegressionLearnedSVGD (GPR_mll_svgd.py)
\* x.view(torch.Size((1,)) + x.shape)
ViewLeadingOne(shape) == <<1>> \o shape

\* tensor.repeat(*reps) for reps as long as the tensor's rank
Repeat(shape, reps) == [i \in 1..Len(shape) |-> shape[i] * reps[i]]

\* TileX without the repeat across the particles
TileX_NoRepeat(shape, n) == ViewLeadingOne(shape)

\* lines 192, 199, 201: a rank-2 array tiled across the particles
TileX(shape, n) == Repeat(ViewLeadingOne(shape), <<n, 1, 1>>)

\* lines 193, 200: a rank-1 array tiled across the particles
TileY(shape, n) == Repeat(ViewLeadingOne(shape), <<n, 1>>)

\* random_gp.sample_params_from_prior(shape): one weight vector per entry
\* of the batch shape
SampleParamsFromPrior(shape) ==
    [id |-> "particles", n |-> shape[1], version |-> 0]

\* svgd.step(particles, x, y): the bound optimizer updates the particle
\* tensor in place; the tensor is never resized
SvgdEngineStep(p) == [p EXCEPT !.version = @ + 1]

NoParticles == [id |-> "none", n |-> 0, version |-> 0]

SvgdInit ==
    /\ svgd_phase = "pre"
    /\ num_particles = 0 /\ svgd_num_iter_fit = 0 /\ train_x = <<>>
    /\ particles = NoParticles
    /\ svgd_fitted = FALSE
    /\ tiled = <<>>
    /\ svgd_pc = "idle" /\ svgd_itr = 0 /\ svgd_verbose = FALSE
    /\ log_period = 0 /\ valid_x = "None" /\ valid_t = "None"
    /\ svgd_steps = 0
    /\ svgd_last = <<"none", "none">>

Init == MetaInit /\ SvgdInit

\* __init__ (lines 42-59) with _setup_model_inference (155-209): "ok" or
\* the exception that ends the constructor
SvgdInitStatus(kernel, mean_str, covar_str, opt, t_dim) ==
    IF kernel \notin {"RBF", "IMQ"} THEN "AssertionError"        \* line 44
    ELSE IF t_dim # 1 THEN "AssertionError"                      \* line 52
    ELSE IF mean_str \notin {"NN", "constant"} THEN "AssertionError"  \* 157
    ELSE IF covar_str \notin {"NN", "SE"} THEN "AssertionError"       \* 158
    ELSE IF opt \notin {"Adam", "SGD"} THEN "NotImplementedError"     \* 185
    ELSE "ok"

svgdLocals == <<svgd_itr, svgd_verbose, log_period, valid_x, valid_t>>

SvgdConstruct(kernel, mean_str, covar_str, opt, n, nif, x, t_dim) ==
    /\ svgd_phase = "pre"
    /\ LET status == SvgdInitStatus(kernel, mean_str, covar_str, opt, t_dim)
       IN /\ svgd_last' = <<"__init__", status>>
          /\ IF status = "ok"
             THEN /\ svgd_phase' = "constructed"
                  /\ svgd_num_iter_fit' = nif                    \* line 46
                  /\ num_particles' = n                          \* line 48
                  /\ train_x' = HandleInputDimensionality(x)     \* line 51
                  /\ particles' = SampleParamsFromPrior(<<n>>)   \* line 176
                  /\ svgd_fitted' = FALSE                        \* line 59
             ELSE /\ svgd_phase' = "failed"
                  /\ UNCHANGED <<svgd_num_iter_fit, num_particles, train_x,
                                 particles, svgd_fitted>>
    /\ UNCHANGED <<tiled, svgd_pc, svgdLocals, svgd_steps>>
    /\ UNCHANGED metaVars

SvgdCanCall == svgd_phase = "constructed" /\ svgd_pc = "idle"

svgdObj == <<svgd_phase, num_particles, svgd_num_iter_fit, train_x>>

SvgdNoLocals ==
    /\ svgd_itr' = 0 /\ svgd_verbose' = FALSE /\ log_period' = 0
    /\ valid_x' = "None" /\ valid_t' = "None"

SvgdAbort(status) ==
    /\ svgd_pc' = "idle"
    /\ svgd_last' = <<"fit", status>>
    /\ SvgdNoLocals

\* line 73
FitAccepts(vx, vt) ==
    \/ (vx = "None" /\ vt = "None")
    \/ (vx = "ndarray" /\ vx = "ndarray")

\* lines 73-77: entry of fit
SvgdFit(vx, vt, v, lp) ==
    /\ SvgdCanCall
    /\ particles.version + svgd_num_iter_fit <= MaxUpdates
    /\ svgd_steps' = 0 /\ tiled' = <<>>
    /\ IF ~FitAccepts(vx, vt)
       THEN SvgdAbort("AssertionError")
       ELSE /\ svgd_last' = <<"fit", "running">>
            /\ svgd_verbose' = v /\ log_period' = lp
            /\ valid_x' = vx /\ valid_t' = vt
            /\ IF 1 <= svgd_num_iter_fit
               THEN svgd_pc' = "svgd_step" /\ svgd_itr' = 1
               ELSE svgd_pc' = "finish" /\ svgd_itr' = 0
    /\ UNCHANGED <<svgdObj, particles, svgd_fitted>>
    /\ UNCHANGED metaVars

\* line 79 with lines 190-194: one svgd_step on the training data
SvgdStep(raises) ==
    /\ svgd_pc = "svgd_step"
    /\ tiled' = <<TileX(train_x, num_particles),
                  TileY(<<train_x[1]>>, num_particles)>>
    /\ IF raises
       THEN SvgdAbort("Error") /\ UNCHANGED <<particles, svgd_steps>>
       ELSE /\ particles' = SvgdEngineStep(particles)
            /\ svgd_steps' = svgd_steps + 1
            /\ svgd_pc' = "log"
            /\ UNCHANGED <<svgd_last, svgdLocals>>
    /\ UNCHANGED <<svgdObj, svgd_fitted>>
    /\ UNCHANGED metaVars

\* get_pred_dist (lines 197-206) as called from predict (line 117)
PredTiles(test_x) ==
    <<TileX(train_x, num_particles), TileY(<<train_x[1]>>, num_particles),
      TileX(ExpandQuery(test_x), num_particles)>>

\* SvgdAdvance leaving the loop after an iteration that logged
SvgdAdvance_StopsAfterLog ==
    /\ IF svgd_itr < svgd_num_iter_fit /\ ~svgd_verbose
       THEN svgd_itr' = svgd_itr + 1 /\ svgd_pc' = "svgd_step"
       ELSE svgd_itr' = svgd_itr /\ svgd_pc' = "finish"
    /\ UNCHANGED <<svgd_last, svgd_verbose, log_period, valid_x, valid_t>>

\* line 77: the next iteration, or the end of the loop
SvgdAdvance ==
    /\ IF svgd_itr < svgd_num_iter_fit
       THEN svgd_itr' = svgd_itr + 1 /\ svgd_pc' = "svgd_step"
       ELSE svgd_itr' = svgd_itr /\ svgd_pc' = "finish"
    /\ UNCHANGED <<svgd_last, svgd_verbose, log_period, valid_x, valid_t>>

\* lines 82-93: logging and validation; outcome of the eval of line 90:
\* "ok", "raise_before" (before the prediction) or "raise_after"
SvgdLog(outcome) ==
    /\ svgd_pc = "log"
    /\ IF svgd_verbose /\ svgd_itr # 1 /\ log_period = 0         \* itr % 0
       THEN SvgdAbort("ZeroDivisionError") /\ UNCHANGED tiled
       ELSE LET logs == svgd_verbose
                        /\ (svgd_itr = 1 \/ svgd_itr % log_period = 0)
            IN IF logs /\ valid_x # "None"                       \* line 89
               THEN /\ tiled' = IF outcome = "raise_before" THEN tiled
                                ELSE PredTiles(<<NSamples, train_x[2]>>)
                    /\ IF outcome = "ok" THEN SvgdAdvance
                       ELSE SvgdAbort("ValidationError")
               ELSE SvgdAdvance /\ UNCHANGED tiled
    /\ UNCHANGED <<svgdObj, particles, svgd_fitted, svgd_steps>>
    /\ UNCHANGED metaVars

\* line 95
SvgdFinish ==
    /\ svgd_pc = "finish"
    /\ svgd_fitted' = TRUE
    /\ svgd_pc' = "idle"
    /\ svgd_last' = <<"fit", "ok">>
    /\ SvgdNoLocals
    /\ UNCHANGED <<svgdObj, particles, tiled, svgd_steps>>
    /\ UNCHANGED metaVars

\* predict (lines 98-128) and eval (lines 131-152)
SvgdPredict(name, test_x, outcome) ==
    /\ SvgdCanCall
    /\ tiled' = IF outcome = "raise_before" THEN <<>> ELSE PredTiles(test_x)
    /\ svgd_last' = <<name, IF outcome = "ok" THEN "ok" ELSE "Error">>
    /\ svgd_steps' = 0
    /\ UNCHANGED <<svgdObj, particles, svgd_fitted, svgd_pc, svgdLocals>>
    /\ UNCHANGED metaVars

\* ------------------------------------------------------------- inputs
TupleChoices == {DataTuple(4, <<NSamples, 1>>, <<NSamples>>),
                 DataTuple(4, <<NSamples, MaxDim>>, <<NSamples>>),
                 DataTuple(3, <<NSamples, 1>>, <<NSamples, 1>>)}
TupleLists == UNION {[1..n -> TupleChoices] : n \in 0..MaxValid}
ValidArgs == {NoTuples} \cup {Tuples(l) : l \in TupleLists}

\* the trainers whose calls are explored
FitMeanArgs == {StrArg("NN", TRUE), StrArg("zero", TRUE), ObjArg("Mean")}
FitCovarArgs == {StrArg("NN", TRUE), StrArg("NN", FALSE), StrArg("SE", TRUE)}
FitTrainData == UNION {[1..n -> {<<NSamples, 1>>}] : n \in 1..MaxTasks}

Next ==
    \/ \E lm \in LearningModeArgs, m \in FitMeanArgs, c \in FitCovarArgs,
          nif \in 0..MaxIter, data \in FitTrainData :
          Construct(lm, m, c, nif, data)
    \/ \E lm \in LearningModeArgs, m \in FitMeanArgs, c \in FitCovarArgs,
          nif \in 0..MaxIter, data \in FitTrainData :
          ConstructFails(lm, m, c, nif, data)
    \/ \E cx \in Shapes, qx \in Shapes, r \in BOOLEAN : Predict(cx, qx, r)
    \/ \E t \in TupleChoices, r \in BOOLEAN : Eval(t, r)
    \/ \E l \in TupleLists, k \in 0..MaxValid : EvalDatasets(l, k)
    \/ \E v \in BOOLEAN, vt \in ValidArgs : MetaFit(v, vt)
    \/ ZeroGrad
    \/ \E r \in BOOLEAN : TaskLoss(r)
    \/ Backward
    \/ OptimizerStep
    \/ \E k \in 0..MaxValid : LogAndAdvance(k)
    \/ Finish

Spec == Init /\ [][Next]_vars

\* every constructor call, and nothing after it
NextInit ==
    \/ \E lm \in LearningModeArgs, m \in MeanArgs, c \in CovarArgs,
          nif \in 0..MaxIter, data \in MetaTrainData :
          Construct(lm, m, c, nif, data)
    \/ \E lm \in LearningModeArgs, m \in MeanArgs, c \in CovarArgs,
          nif \in 0..MaxIter, data \in MetaTrainData :
          ConstructFails(lm, m, c, nif, data)

SpecInit == Init /\ [][NextInit]_vars

\* a trainer with shared parameters whose loop passes iteration LogEvery,
\* and its meta_fit calls
LongIter == LogEvery + 1

NextLog ==
    \/ \E nif \in {MaxIter, LongIter}, data \in FitTrainData :
          Construct("both", StrArg("NN", TRUE), StrArg("NN", TRUE), nif, data)
    \/ \E v \in BOOLEAN, vt \in ValidArgs : MetaFit(v, vt)
    \/ ZeroGrad
    \/ \E r \in BOOLEAN : TaskLoss(r)
    \/ Backward
    \/ OptimizerStep
    \/ \E k \in 0..MaxValid : LogAndAdvance(k)
    \/ Finish

SpecLog == Init /\ [][NextLog]_vars

\* ----------------------------------------------------- the SVGD trainer
Outcomes == {"ok", "raise_before", "raise_after"}
ArrayKinds == {"None", "ndarray", "list"}

NextSVGD ==
    \/ \E k \in {"RBF", "IMQ", "linear"}, m \in {"NN", "constant", "zero"},
          c \in {"NN", "SE"}, o \in {"Adam", "SGD", "LBFGS"},
          n \in 1..MaxParticles, nif \in 0..MaxIter, x \in Shapes,
          t_dim \in 1..MaxDim :
          SvgdConstruct(k, m, c, o, n, nif, x, t_dim)
    \/ \E vx \in ArrayKinds, vt \in ArrayKinds, v \in BOOLEAN,
          lp \in 0..MaxLogPeriod : SvgdFit(vx, vt, v, lp)
    \/ \E r \in BOOLEAN : SvgdStep(r)
    \/ \E o \in Outcomes : SvgdLog(o)
    \/ SvgdFinish
    \/ \E nm \in {"predict", "eval"}, x \in Shapes, o \in Outcomes :
          SvgdPredict(nm, x, o)

SpecSVGD == Init /\ [][NextSVGD]_vars

\* the fit loop is one thread that runs each of its steps in turn
FairSpecSVGD ==
    /\ SpecSVGD
    /\ WF_vars(\E r \in BOOLEAN : SvgdStep(r))
    /\ WF_vars(\E o \in Outcomes : SvgdLog(o))
    /\ WF_vars(SvgdFinish)

\* ====================================================== claims, meta trainer
MetaFitReturned == pc = "idle" /\ last = <<"meta_fit", "ok">>
MetaFitFailed ==
    pc = "idle" /\ last[1] = "meta_fit" /\ last[2] \notin {"ok", "running"}

\* the feature dimension of an array, a 1-D array counting as dimension 1
FeatureDim(shape) == IF Len(shape) = 1 THEN 1 ELSE shape[2]

\* C1: whenever meta_fit has returned normally, every per-task model and
\* the likelihood are in evaluation mode and fitted is true.
C1_ReturnLeavesEvalMode ==
    MetaFitReturned =>
        /\ fitted
        /\ likelihood = "eval"
        /\ \A i \in DOMAIN task_dicts : task_dicts[i].mode = "eval"

\* a normal return of a later meta_fit call that trained and validated
C1_Witness ==
    /\ MetaFitReturned
    /\ steps >= 1 /\ built >= 1 /\ param_state > steps
    /\ likelihood = "eval"

\* C2: a trainer constructed with learning_mode = 'vanilla' has no optimizer
\* and no shared parameters, never enters the training loop, never updates a
\* shared tensor, and is fitted once meta_fit has returned.
C2_VanillaNoOp ==
    (phase = "constructed" /\ learning_mode = "vanilla") =>
        /\ ~optimizer
        /\ shared_parameters = <<>>
        /\ param_state = 0 /\ steps = 0
        /\ pc \in {"idle", "finish"}
        /\ (MetaFitReturned => fitted)

C2_Witness ==
    /\ learning_mode = "vanilla" /\ num_iter_fit >= 1
    /\ MetaFitReturned /\ fitted /\ param_state = 0

\* C3 as stated: the constructor fails with an assertion error whenever
\* learning_mode asks for a network role and the module string is not 'NN'.
\* (An empty task list ends the constructor with an IndexError before the
\* prior is set up; the constructor's contract is a non-empty list.)
ConstructorCalled == phase # "pre" /\ ctor_args.n_tasks > 0
ConstructorAsserted == phase = "failed" /\ last = <<"__init__", "AssertionError">>

C4_MismatchRejected ==
    [][(/\ CanCall /\ last'[1] = "predict"
        /\ FeatureDim(predict_args'[2]) # FeatureDim(predict_args'[1])) =>
            /\ last' = <<"predict", "AssertionError">>
            /\ built' = 0 /\ pred_model' = NoModel
            /\ UNCHANGED <<likelihood, task_dicts, param_state, fitted,
                           nn_kernel_map, nn_mean_fn,
                           shared_parameters>>]_vars

\* a rejected predict on a trainer whose likelihood is still in training mode
C4_Witness ==
    /\ last = <<"predict", "AssertionError">>
    /\ predict_args = <<<<NSamples, 1>>, <<NSamples, 2>>>>
    /\ built = 0 /\ pred_model = NoModel
    /\ likelihood = "train" /\ ~fitted

\* C5 as stated: after a failed meta_fit, fitted is false.
C5_Original == MetaFitFailed => ~fitted

\* C5 (amended): a failed meta_fit leaves fitted as it was: fitted is true
\* after the failure exactly if an earlier meta_fit returned normally.
C5_FailureKeepsFitted == MetaFitFailed => (fitted = ever_fitted)

\* an error inside the loop of a second call, after one optimizer step
C5_Witness ==
    /\ pc = "idle" /\ last = <<"meta_fit", "Error">>
    /\ steps >= 1 /\ fitted

\* some validation tuple is certain to raise: its query and context
\* feature dimensions differ
ValidationMustRaise ==
    /\ pc = "log" /\ LogsAt(itr) /\ ~valid_tuples.isNone
    /\ \E i \in DOMAIN valid_tuples.list :
          FeatureDim(valid_tuples.list[i].qx) # FeatureDim(valid_tuples.list[i].cx)

\* C6 as stated: a meta_fit call in which the validation raised has still
\* performed all num_iter_fit optimizer steps and has set fitted.
C6_Original ==
    last = <<"meta_fit", "ValidationError">> =>
        (steps = num_iter_fit /\ fitted)

\* C6 (amended): an error raised by the validation of a logging iteration
\* leaves meta_fit at once: the call ends with that error, no further
\* optimizer step is taken, the shared parameters and fitted stay as they
\* are and the task models stay in training mode.
C6_ValidationErrorAborts ==
    [][/\ ValidationMustRaise => last' = <<"meta_fit", "ValidationError">>
       /\ (pc = "log" /\ last' = <<"meta_fit", "ValidationError">>) =>
            /\ pc' = "idle"
            /\ UNCHANGED <<steps, param_state, fitted, task_dicts>>
            /\ \A i \in DOMAIN task_dicts : task_dicts[i].mode = "train"]_vars

\* the validation of iteration 1 raised with iterations left to run
C6_Witness ==
    /\ pc = "idle" /\ last = <<"meta_fit", "ValidationError">>
    /\ steps = 1 /\ steps < num_iter_fit /\ ~fitted

\* one iteration: zero_grad, the loss of every task in list order,
\* backward, optimizer step
ExpectedOps(n) ==
    <<Op("zero_grad", 0)>> \o [i \in 1..n |-> Op("loss", i)]
        \o <<Op("backward", 0), Op("step", 0)>>

IsPrefix(a, b) == Len(a) <= Len(b) /\ \A i \in DOMAIN a : a[i] = b[i]

IterationsInOrder ==
    /\ MetaFitReturned => steps = num_iter_fit
    /\ pc = "log" => (ops = ExpectedOps(Len(task_dicts)) /\ steps = itr)
    /\ pc \in {"loss", "backward", "step"} =>
          (IsPrefix(ops, ExpectedOps(Len(task_dicts))) /\ steps = itr - 1)

\* C7 as stated: every trainer whose learning_mode is not 'vanilla' has
\* performed num_iter_fit optimizer steps when meta_fit returns.
C7_Original ==
    (phase = "constructed" /\ learning_mode # "vanilla" /\ MetaFitReturned)
        => steps = num_iter_fit

\* C7 (amended): for every trainer that has shared parameters, a normally
\* returning meta_fit performs exactly num_iter_fit iterations, each being
\* zero_grad, the loss of every task once in list order, one backward, one
\* optimizer step.
C7_SharedParamsIterations ==
    (phase = "constructed" /\ Len(shared_parameters) > 0) => IterationsInOrder

C7_Witness ==
    /\ MetaFitReturned /\ Len(shared_parameters) > 0
    /\ steps >= 2 /\ Len(task_dicts) >= 2

\* C8: every per-task model and every model built by predict holds the
\* trainer's own feature-map objects, these are never rebound, and the
\* shared tensors change only in the optimizer step of a running meta_fit.
SharedReferences ==
    phase = "constructed" =>
        /\ \A i \in DOMAIN task_dicts :
              /\ task_dicts[i].learned_kernel = nn_kernel_map
              /\ task_dicts[i].learned_mean = nn_mean_fn
        /\ pred_model # NoModel =>
              /\ pred_model.learned_kernel = nn_kernel_map
              /\ pred_model.learned_mean = nn_mean_fn

SingleWriter ==
    /\ param_state' # param_state =>
          /\ pc = "step" /\ last = <<"meta_fit", "running">>
          /\ param_state' = param_state + 1
    /\ phase = "constructed" => UNCHANGED <<nn_kernel_map, nn_mean_fn>>

C8_SharedMapsSingleWriter == [](SharedReferences) /\ [][SingleWriter]_vars

\* a model built by predict after the optimizer has updated the maps
C8_Witness ==
    /\ nn_kernel_map # None /\ nn_mean_fn # None
    /\ param_state >= 1 /\ pred_model # NoModel
    /\ Len(task_dicts) >= 2
    /\ pred_model.learned_kernel = task_dicts[2].learned_kernel


\* C11: inside the meta_fit loop validation runs at iteration itr exactly
\* when verbose is true, validation tuples were supplied and itr is 1 or a
\* multiple of 100; a validation pass that completes evaluates every
\* validation tuple and leaves the likelihood in training mode, and at
\* every step of a gradient iteration the likelihood and all per-task
\* models are in training mode.
ValidationDue ==
    verbose /\ ~valid_tuples.isNone /\ (itr = 1 \/ itr % 100 = 0)

ValidationExactlyWhenDue ==
    pc = "log" =>
        IF ValidationDue
        THEN \/ last' = <<"meta_fit", "ValidationError">>
             \/ /\ Len(valid_tuples.list) >= 1
                /\ built' = built + Len(valid_tuples.list)
                /\ likelihood' = "train"
                /\ last' = last
        ELSE /\ built' = built /\ pred_model' = pred_model
             /\ likelihood' = likelihood /\ last' = last

TrainModeInGradientStep ==
    pc \in {"zero_grad", "loss", "backward", "step"} =>
        /\ likelihood = "train"
        /\ \A i \in DOMAIN task_dicts : task_dicts[i].mode = "train"

C11_ValidationSchedule ==
    [](TrainModeInGradientStep) /\ [][ValidationExactlyWhenDue]_vars

\* the gradient step after the validation passes of iterations 1 and 100
C11_Witness ==
    /\ pc = "zero_grad" /\ itr = 101
    /\ verbose /\ ~valid_tuples.isNone
    /\ built = 2 * Len(valid_tuples.list) /\ built >= 2
    /\ likelihood = "train"

\* C12: after construction the tags are resolved: covar_module is a kernel
\* object (the scaled RBF kernel for 'NN' and for 'SE'), mean_module is a
\* mean object or None (None for 'NN'), and no per-task model is handed the
\* tag string as its covar_module or mean_module.  Stated for the ordinary
\* caller, whose tag strings are the interned literals.
C12_Original ==
    /\ phase = "constructed"
    /\ ctor_args.covar_module.isobj \/ ctor_args.covar_module.literal
    /\ ctor_args.mean_module.isobj \/ ctor_args.mean_module.literal
    =>
        /\ covar_module.kind = "obj"
        /\ (~ctor_args.covar_module.isobj => covar_module = Obj("ScaleKernel_RBF"))
        /\ mean_module.kind \in {"obj", "None"}
        /\ (InStrs(ctor_args.mean_module, {"NN"}) => mean_module = None)
        /\ \A i \in DOMAIN task_dicts :
              /\ task_dicts[i].covar_module.kind # "str"
              /\ task_dicts[i].mean_module.kind # "str"

\* ====================================================== claims, SVGD trainer
SvgdFitReturned == svgd_pc = "idle" /\ svgd_last = <<"fit", "ok">>

\* C9: the ensemble built by the constructor has num_particles particles
\* and is the same ensemble of the same size after every fit, predict and
\* eval; every array tiled for an SVGD step or a prediction has leading
\* dimension num_particles.
ParticleCountFixed ==
    svgd_phase = "constructed" =>
        /\ particles.id = "particles"
        /\ particles.n = num_particles
        /\ \A i \in DOMAIN tiled :
              /\ tiled[i][1] = num_particles
              /\ tiled[i][2] = NSamples

SameEnsemble ==
    svgd_phase = "constructed" =>
        /\ particles'.id = particles.id /\ particles'.n = particles.n
        /\ num_particles' = num_particles

C9_ParticleCountInvariant == [](ParticleCountFixed) /\ [][SameEnsemble]_vars

\* a prediction after two SVGD steps on an ensemble of several particles
C9_Witness ==
    /\ svgd_phase = "constructed" /\ num_particles >= 2
    /\ particles.version >= 2 /\ particles.n = num_particles
    /\ Len(tiled) = 3 /\ tiled[3][1] = num_particles

\* C10: a fit call that has started ends; when it returns normally it has
\* taken exactly num_iter_fit SVGD steps, one per iteration on all rows of
\* the training data, and fitted is true, whatever verbose, log_period and
\* the validation data are.
FitCounts ==
    /\ SvgdFitReturned => (svgd_steps = svgd_num_iter_fit /\ svgd_fitted)
    /\ svgd_pc = "log" =>
          /\ svgd_steps = svgd_itr
          /\ tiled[1] = <<num_particles>> \o train_x
    /\ svgd_pc = "svgd_step" => svgd_steps = svgd_itr - 1

C10_FitRunsAllSteps ==
    /\ [](FitCounts)
    /\ (svgd_pc # "idle") ~> (svgd_pc = "idle")

\* a verbose fit with validation data that returned after two steps
C10_Witness ==
    /\ SvgdFitReturned /\ svgd_fitted
    /\ svgd_steps >= 2 /\ Len(tiled) = 3


\* C13: fit rejects, before any SVGD step, every call whose valid_x and
\* valid_t are not both None or both numpy arrays: while a fit call that
\* has taken a step is running, its validation pair is well formed.
ValidPairWellFormed ==
    \/ valid_x = "None" /\ valid_t = "None"
    \/ valid_x = "ndarray" /\ valid_t = "ndarray"

C13_Original ==
    (svgd_pc # "idle" /\ svgd_steps >= 1) => ValidPairWellFormed

====
